---- MODULE Spec2Model ----
(***************************************************************************)
(* A model of node-iconv's binding (src/iconv.cc): the Iconv object that   *)
(* wraps one iconv_t descriptor, the encoding-name fixup used when it is   *)
(* constructed, and the conversion engine convert() with its growable      *)
(* output buffer.  The C library (realloc, free, errno) and the iconv      *)
(* primitive are the environment; they are modelled by what their          *)
(* documentation allows them to do.                                        *)
(***************************************************************************)
EXTENDS Integers, Sequences, FiniteSets, TLC

(***************************************************************************)
(* Bounds of the model.                                                    *)
(***************************************************************************)
\* longest input handed to convert, in bytes, when its bytes are arbitrary
MaxInLen == 6
\* longest input handed to convert when it is a run of one-byte characters
MaxRun == 9
\* distance between the base addresses of two heap blocks
Stride == 1000
\* longest history of one call that is kept
MaxHist == 16

(***************************************************************************)
(* C strings.  A name is a sequence of one-character strings; the          *)
(* terminating NUL is the character read at index Len(name).               *)
(***************************************************************************)
NUL == ""

CharAt(s, i) == IF i < Len(s) THEN s[i + 1] ELSE NUL

tolower(c) ==
    CASE c = "U" -> "u"
      [] c = "T" -> "t"
      [] c = "F" -> "f"
      [] c = "L" -> "l"
      [] c = "E" -> "e"
      [] c = "B" -> "b"
      [] c = "X" -> "x"
      [] c = "I" -> "i"
      [] c = "S" -> "s"
      [] c = "O" -> "o"
      [] c = "J" -> "j"
      [] c = "P" -> "p"
      [] c = "A" -> "a"
      [] c = "N" -> "n"
      [] OTHER -> c

\* 0 when the strings are equal, 1 otherwise (the sign is never used)
RECURSIVE CmpFrom(_, _, _, _, _)
CmpFrom(a, b, i, n, fold) ==
    IF i >= n THEN 0
    ELSE LET ca == IF fold THEN tolower(CharAt(a, i)) ELSE CharAt(a, i)
             cb == IF fold THEN tolower(CharAt(b, i)) ELSE CharAt(b, i)
         IN  IF ca # cb THEN 1
             ELSE IF ca = NUL THEN 0
             ELSE CmpFrom(a, b, i + 1, n, fold)

strcmp(a, b) == CmpFrom(a, b, 0, Len(a) + Len(b) + 1, FALSE)
strcasecmp(a, b) == CmpFrom(a, b, 0, Len(a) + Len(b) + 1, TRUE)
strncasecmp(a, b, n) == CmpFrom(a, b, 0, n, TRUE)

\* the string that starts at &s[i]
StrFrom(s, i) == IF i >= Len(s) THEN <<>> ELSE SubSeq(s, i + 1, Len(s))

UTF == <<"U", "T", "F">>
UTF7 == <<"U", "T", "F", "-", "7">>
UTF8 == <<"U", "T", "F", "-", "8">>
UTF16 == <<"U", "T", "F", "-", "1", "6">>
UTF16LE == <<"U", "T", "F", "-", "1", "6", "L", "E">>
UTF16BE == <<"U", "T", "F", "-", "1", "6", "B", "E">>
UTF32 == <<"U", "T", "F", "-", "3", "2">>
UTF32LE == <<"U", "T", "F", "-", "3", "2", "L", "E">>
UTF32BE == <<"U", "T", "F", "-", "3", "2", "B", "E">>
ISO2022JP == <<"I", "S", "O", "-", "2", "0", "2", "2", "-", "J", "P">>

\* a fixup that takes every name starting UTF7 or UTF8 for the alias
fixEncodingName_NoEndTest(name) ==
    IF strncasecmp(name, UTF, 3) = 0 /\ CharAt(name, 3) # "-"
    THEN LET c == CharAt(name, 3)
             s == StrFrom(name, 4)
         IN  CASE c = "1" ->
                   IF strcmp(s, <<"6">>) = 0 THEN UTF16
                   ELSE IF strcasecmp(s, <<"6", "L", "E">>) = 0 THEN UTF16LE
                   ELSE IF strcasecmp(s, <<"6", "B", "E">>) = 0 THEN UTF16BE
                   ELSE name
               [] c = "3" ->
                   IF strcmp(s, <<"2">>) = 0 THEN UTF32
                   ELSE IF strcasecmp(s, <<"2", "L", "E">>) = 0 THEN UTF32LE
                   ELSE IF strcasecmp(s, <<"2", "B", "E">>) = 0 THEN UTF32BE
                   ELSE name
               [] c = "7" -> UTF7
               [] c = "8" -> UTF8
               [] OTHER -> name
    ELSE name

\* the workaround for names such as "UTF8", which libiconv does not know
fixEncodingName(name) ==
    IF strncasecmp(name, UTF, 3) = 0 /\ CharAt(name, 3) # "-"
    THEN LET c == CharAt(name, 3)
             s == StrFrom(name, 4)
         IN  CASE c = "1" ->
                   IF strcmp(s, <<"6">>) = 0 THEN UTF16
                   ELSE IF strcasecmp(s, <<"6", "L", "E">>) = 0 THEN UTF16LE
                   ELSE IF strcasecmp(s, <<"6", "B", "E">>) = 0 THEN UTF16BE
                   ELSE name
               [] c = "3" ->
                   IF strcmp(s, <<"2">>) = 0 THEN UTF32
                   ELSE IF strcasecmp(s, <<"2", "L", "E">>) = 0 THEN UTF32LE
                   ELSE IF strcasecmp(s, <<"2", "B", "E">>) = 0 THEN UTF32BE
                   ELSE name
               [] c = "7" -> IF CharAt(s, 0) = NUL THEN UTF7 ELSE name
               [] c = "8" -> IF CharAt(s, 0) = NUL THEN UTF8 ELSE name
               [] OTHER -> name
    ELSE name

(***************************************************************************)
(* The encoding names the model constructs converters with: every          *)
(* spelling of a prefix followed by a suffix, and a few other names.       *)
(***************************************************************************)
Prefixes == { <<"U", "T", "F">>, <<"u", "t", "F">> }

Suffixes ==
    { <<"7">>, <<"8">>, <<"1", "6">>, <<"3", "2">>,
      <<"1", "6", "L", "E">>, <<"1", "6", "l", "e">>, <<"1", "6", "B", "E">>,
      <<"1", "6", "b", "E">>, <<"3", "2", "L", "E">>, <<"3", "2", "l", "E">>,
      <<"3", "2", "B", "E">>, <<"3", "2", "b", "e">>,
      <<"-", "7">>, <<"-", "8">>, <<"-", "1", "6">>, <<"-", "3", "2">>,
      <<"-", "1", "6", "L", "E">>, <<"-", "3", "2", "L", "E">>,
      <<"-", "3", "2", "l", "e">>, <<"-", "1", "6", "B", "E">>,
      <<"-", "3", "2", "B", "E">>,
      <<>>, <<"9">>, <<"1">>, <<"3">>, <<"8", "8">>, <<"7", "7">>,
      <<"1", "6", "X">>, <<"1", "6", "L">>, <<"3", "2", "B">>, <<"6", "1">>,
      <<"-">>, <<"8", "-">> }

OtherNames ==
    { ISO2022JP, <<"U", "T">>, <<"L", "A", "T", "I", "N", "1">>,
      <<"N", "O", "P", "E">> }

Names == { p \o s : p \in Prefixes, s \in Suffixes } \cup OtherNames

(***************************************************************************)
(* errno and the classified errors.                                        *)
(***************************************************************************)
\* (size_t) -1, the value iconv returns on failure
IconvFail == -1

\* first capacity of the output buffer
InitialSize == 16

Errnos == { "0", "E2BIG", "EINVAL", "EILSEQ", "ENOMEM", "EBADF" }

\* the branches of Iconv::Convert that pick the exception
Classify(e) ==
    CASE e = "EINVAL" -> "IncompleteSequence"
      [] e = "EILSEQ" -> "IllegalSequence"
      [] e = "ENOMEM" -> "OutOfMemory"
      [] OTHER -> "OtherSystemError"

ErrorKinds ==
    { "IncompleteSequence", "IllegalSequence", "OutOfMemory", "OtherSystemError" }

(***************************************************************************)
(* The heap.  A pointer is an integer: NULL is 0 and block b starts at     *)
(* b * Stride.  A block that is not live has been freed (or never          *)
(* allocated).  Junk is the content of storage nobody has written.         *)
(***************************************************************************)
NullPtr == 0
NBlocks == 2
Blocks == 1 .. NBlocks
Junk == -1

BaseAddr(b) == b * Stride
BlockAt(p) == p \div Stride
OffsetIn(p) == p % Stride

DeadBlock == [live |-> FALSE, size |-> 0, data |-> <<>>]
EmptyHeap == [b \in Blocks |-> DeadBlock]

IsLiveBase(h, p) ==
    /\ p # NullPtr
    /\ OffsetIn(p) = 0
    /\ BlockAt(p) \in Blocks
    /\ h[BlockAt(p)].live

LiveBlocks(h) == { b \in Blocks : h[b].live }

FreeBlocks(h) == { b \in Blocks : ~h[b].live }

LowestFree(h) == CHOOSE b \in FreeBlocks(h) : \A c \in FreeBlocks(h) : b <= c

Resize(data, n) == [i \in 1 .. n |-> IF i <= Len(data) THEN data[i] ELSE Junk]

(* realloc(ptr, size): the set of outcomes the C library allows.  Each is   *)
(* the returned pointer, the heap and errno after the call, and whether    *)
(* the call was undefined (ptr neither NULL nor a live block).             *)
(*  - failure returns NULL, leaves the old block alone, sets ENOMEM;       *)
(*  - success resizes in place or moves the block, keeping its content     *)
(*    up to the smaller of the two sizes;                                  *)
(*  - realloc(ptr, 0) with ptr # NULL is implementation-defined: it may    *)
(*    free ptr and return NULL without touching errno (glibc), or return   *)
(*    a live zero-sized block (the BSDs), or fail.                         *)
ReallocFail(h, e) ==
    [ptr |-> NullPtr, heap |-> h, errno |-> "ENOMEM", undef |-> FALSE]

ReallocInPlace(h, e, ptr, size) ==
    [ptr |-> ptr,
     heap |-> [h EXCEPT ![BlockAt(ptr)] =
                 [live |-> TRUE, size |-> size, data |-> Resize(@.data, size)]],
     errno |-> e, undef |-> FALSE]

ReallocMoved(h, e, ptr, size) ==
    LET old == IF ptr = NullPtr THEN <<>> ELSE h[BlockAt(ptr)].data
        nb == LowestFree(h)
        h1 == [h EXCEPT ![nb] =
                 [live |-> TRUE, size |-> size, data |-> Resize(old, size)]]
    IN  [ptr |-> BaseAddr(nb),
         heap |-> IF ptr = NullPtr THEN h1
                  ELSE [h1 EXCEPT ![BlockAt(ptr)] = DeadBlock],
         errno |-> e, undef |-> FALSE]

ReallocFrees(h, e, ptr) ==
    [ptr |-> NullPtr, heap |-> [h EXCEPT ![BlockAt(ptr)] = DeadBlock],
     errno |-> e, undef |-> FALSE]

Realloc(h, e, ptr, size) ==
    IF ptr # NullPtr /\ ~IsLiveBase(h, ptr)
    THEN { [ptr |-> NullPtr, heap |-> h, errno |-> e, undef |-> TRUE] }
    ELSE { ReallocFail(h, e) }
         \cup (IF FreeBlocks(h) # {} THEN { ReallocMoved(h, e, ptr, size) } ELSE {})
         \cup (IF ptr # NullPtr THEN { ReallocInPlace(h, e, ptr, size) } ELSE {})
         \cup (IF ptr # NullPtr /\ size = 0 THEN { ReallocFrees(h, e, ptr) } ELSE {})

(* free(ptr): nothing for NULL, releases a live block, undefined otherwise *)
(* (a double free or a wild pointer).                                      *)
Free(h, ptr) ==
    IF ptr = NullPtr THEN [heap |-> h, undef |-> FALSE]
    ELSE IF IsLiveBase(h, ptr)
    THEN [heap |-> [h EXCEPT ![BlockAt(ptr)] = DeadBlock], undef |-> FALSE]
    ELSE [heap |-> h, undef |-> TRUE]

(* errno after a successful free.  Until POSIX.1-2024 a successful call    *)
(* may set errno unless the function's description forbids it, and free    *)
(* did (through munmap or madvise) on the C libraries of the time.         *)
ErrnoAfterFree(e) == { e, "ENOMEM", "EINVAL" }

(* The bytes stored at [p, p + Len(bytes)): inside one live block, or the  *)
(* write is out of bounds.                                                 *)
InBounds(h, p, n) ==
    \/ n = 0
    \/ /\ p # NullPtr
       /\ BlockAt(p) \in Blocks
       /\ h[BlockAt(p)].live
       /\ OffsetIn(p) + n <= h[BlockAt(p)].size

MemWrite(h, p, bytes) ==
    IF Len(bytes) = 0 THEN [heap |-> h, undef |-> FALSE]
    ELSE IF InBounds(h, p, Len(bytes))
    THEN [heap |->
            [h EXCEPT ![BlockAt(p)].data =
               [i \in 1 .. Len(@) |->
                  IF i > OffsetIn(p) /\ i <= OffsetIn(p) + Len(bytes)
                  THEN bytes[i - OffsetIn(p)] ELSE @[i]]],
          undef |-> FALSE]
    ELSE [heap |-> h, undef |-> TRUE]

\* the n bytes a reader finds at p; <<>> marks storage that is not there
MemRead(h, p, n) ==
    IF p # NullPtr /\ BlockAt(p) \in Blocks /\ h[BlockAt(p)].live
       /\ OffsetIn(p) + n <= h[BlockAt(p)].size
    THEN SubSeq(h[BlockAt(p)].data, OffsetIn(p) + 1, OffsetIn(p) + n)
    ELSE <<>>

(***************************************************************************)
(* The conversion primitive (iconv_open, iconv, iconv_close).  The model   *)
(* primitive converts from one source encoding, whose bytes are            *)
(*    "a"  a one-byte character,                                           *)
(*    "L"  the lead byte of a two-byte character,                          *)
(*    "c"  its continuation byte (illegal anywhere else),                  *)
(* to three target encodings:                                              *)
(*    "ident"  one output byte per input byte (UTF-8 to UTF-8),            *)
(*    "wide"   four output bytes per character (UTF-32LE),                 *)
(*    "shift"  a stateful encoding (ISO-2022-JP): a two-byte character     *)
(*             is written in shift state 1, a one-byte character in        *)
(*             state 0, a three-byte escape sequence switches the state,   *)
(*             and the flush writes the escape back to state 0.            *)
(* Every output byte is tagged with the input position of its character,   *)
(* so that a byte dropped, repeated or moved changes the output.           *)
(***************************************************************************)
InputBytes == { "a", "L", "c" }

RECURSIVE SeqsUpTo(_)
SeqsUpTo(n) ==
    IF n = 0 THEN { <<>> }
    ELSE LET shorter == SeqsUpTo(n - 1)
         IN  shorter \cup { Append(s, b) : s \in { t \in shorter : Len(t) = n - 1 },
                                            b \in InputBytes }

Runs == { [i \in 1 .. n |-> "a"] : n \in 1 .. MaxRun }

Inputs == SeqsUpTo(MaxInLen) \cup Runs

Fold(s) == [i \in 1 .. Len(s) |-> tolower(s[i])]

NoConv == [to |-> "none"]

\* iconv_open(tocode, fromcode): the descriptor, or NoConv for (iconv_t) -1
iconv_open(tocode, fromcode) ==
    IF Fold(fromcode) # Fold(UTF8) THEN NoConv
    ELSE IF Fold(tocode) = Fold(UTF8) THEN [to |-> "ident"]
    ELSE IF Fold(tocode) = Fold(UTF32LE) THEN [to |-> "wide"]
    ELSE IF Fold(tocode) = Fold(ISO2022JP) THEN [to |-> "shift"]
    ELSE NoConv

EscIn == <<101, 102, 103>>
EscOut == <<201, 202, 203>>

Tagged(p, n) == [k \in 1 .. n |-> p * 10 + k]

\* the bytes one character (cls "a" or "w", read at position p) is written as
Encode(to, cls, sh, p) ==
    CASE to = "ident" ->
           [bytes |-> Tagged(p, IF cls = "a" THEN 1 ELSE 2), shift |-> sh]
      [] to = "wide" -> [bytes |-> Tagged(p, 4), shift |-> sh]
      [] OTHER ->
           IF cls = "a"
           THEN [bytes |-> (IF sh = 1 THEN EscOut ELSE <<>>) \o Tagged(p, 1),
                 shift |-> 0]
           ELSE [bytes |-> (IF sh = 0 THEN EscIn ELSE <<>>) \o Tagged(p, 2),
                 shift |-> 1]

(* iconv(cd, &inbuf, &inbytesleft, &outbuf, &outbytesleft): converts the   *)
(* characters of in[pos .. lim] one by one while they fit in `room`.       *)
(* It stops with E2BIG at the first character that does not fit, EILSEQ    *)
(* at an illegal byte, EINVAL at a character cut off by the end of the     *)
(* input; what was converted before stays converted.                       *)
RECURSIVE IconvRun(_, _, _, _, _, _, _)
IconvRun(to, in, pos, lim, sh, room, out) ==
    IF pos > lim THEN [pos |-> pos, out |-> out, shift |-> sh, err |-> "OK"]
    ELSE LET stop(e) == [pos |-> pos, out |-> out, shift |-> sh, err |-> e]
             b == in[pos]
         IN  IF b = "c" THEN stop("EILSEQ")
             ELSE IF b = "L" /\ pos = lim THEN stop("EINVAL")
             ELSE IF b = "L" /\ in[pos + 1] # "c" THEN stop("EILSEQ")
             ELSE LET e == Encode(to, IF b = "a" THEN "a" ELSE "w", sh, pos)
                      n == IF b = "a" THEN 1 ELSE 2
                  IN  IF Len(e.bytes) > room THEN stop("E2BIG")
                      ELSE IconvRun(to, in, pos + n, lim, e.shift,
                                    room - Len(e.bytes), out \o e.bytes)

\* iconv(cd, NULL, NULL, &outbuf, &outbytesleft): writes the shift sequence
IconvFlush(to, sh, room) ==
    IF to = "shift" /\ sh = 1
    THEN IF Len(EscOut) > room
         THEN [out |-> <<>>, shift |-> sh, err |-> "E2BIG"]
         ELSE [out |-> EscOut, shift |-> 0, err |-> "OK"]
    ELSE [out |-> <<>>, shift |-> sh, err |-> "OK"]

\* failure signals the primitive can raise whatever the input is
EnvSignals == { "ENOMEM", "EBADF" }

\* the whole conversion of `in` by a descriptor just opened, into a buffer
\* that is never too small: the output, or the signal it stops with
FreshRun(to, in) ==
    LET r == IconvRun(to, in, 1, Len(in), 0, Stride, <<>>)
        f == IconvFlush(to, r.shift, Stride)
    IN  IF r.err # "OK" THEN [out |-> <<>>, err |-> r.err]
        ELSE [out |-> r.out \o f.out, err |-> "OK"]

(***************************************************************************)
(* The state.                                                              *)
(***************************************************************************)
VARIABLES
    conv,      \* Iconv::conv_ of the one Iconv object, NoConv when there is none
    shift,     \* the shift state held inside the descriptor
    errno,     \* the C library's errno
    heap,      \* the C heap
    pc,        \* where the running convert call stands, "idle" between calls
    input,     \* convert: input, inlen
    inbuf,     \* convert: inbuf, as an offset from input
    inbufsz,   \* convert: inbufsz
    output,    \* Iconv::Convert: output
    outlen,    \* Iconv::Convert: outlen
    outbuf,    \* convert: outbuf
    outbufsz,  \* convert: outbufsz
    rv,        \* convert: rv
    cret,      \* the value convert returned
    result,    \* what the last call into the binding gave back to JavaScript
    opened,    \* history: the arguments of the last New and of its iconv_open
    produced,  \* history: the bytes the primitive wrote during this call
    sig,       \* history: errno as the operation that aborted the call set it
    hist,      \* history: the operations of this call, in order
    shift0,    \* history: the shift state this call found in the descriptor
    undef      \* history: undefined operations on memory executed so far

vars ==
    <<conv, shift, errno, heap, pc, input, inbuf, inbufsz, output, outlen,
      outbuf, outbufsz, rv, cret, result, opened, produced, sig, hist, shift0,
      undef>>

frame == <<input, inbuf, inbufsz, output, outlen, outbuf, outbufsz, rv, cret>>

NoResult == [kind |-> "none"]
NotOpened == <<>>

Init ==
    /\ conv = NoConv
    /\ shift = 0
    /\ errno = "0"
    /\ heap = EmptyHeap
    /\ pc = "idle"
    /\ input = <<>>
    /\ inbuf = 0
    /\ inbufsz = 0
    /\ output = NullPtr
    /\ outlen = 0
    /\ outbuf = NullPtr
    /\ outbufsz = 0
    /\ rv = 0
    /\ cret = 0
    /\ result = NoResult
    /\ opened = NotOpened
    /\ produced = <<>>
    /\ sig = "none"
    /\ hist = <<>>
    /\ shift0 = 0
    /\ undef = {}

(***************************************************************************)
(* Iconv::New, Iconv::Iconv and Iconv::~Iconv.  The model holds one Iconv  *)
(* object at a time.                                                       *)
(***************************************************************************)
\* the arguments of iconv_open, <<tocode, fromcode>>, swapped
OpenArgs_SourceFirst(sourceEncoding, targetEncoding) ==
    <<fixEncodingName(sourceEncoding), fixEncodingName(targetEncoding)>>

\* the arguments of iconv_open, <<tocode, fromcode>>
OpenArgs(sourceEncoding, targetEncoding) ==
    <<fixEncodingName(targetEncoding), fixEncodingName(sourceEncoding)>>

New(sourceEncoding, targetEncoding) ==
    /\ pc = "idle"
    /\ conv = NoConv
    /\ LET a == OpenArgs(sourceEncoding, targetEncoding)
           cd == iconv_open(a[1], a[2])
       IN  /\ opened' = <<sourceEncoding, targetEncoding, a[1], a[2]>>
           /\ IF cd = NoConv
              THEN /\ errno' = "EINVAL"
                   /\ result' = [kind |-> "error", err |-> "UnsupportedConversion",
                                 code |-> "EINVAL"]
                   /\ conv' = NoConv
              ELSE /\ errno' = errno
                   /\ result' = [kind |-> "object"]
                   /\ conv' = cd
    /\ shift' = 0
    /\ pc' = "returned"
    /\ UNCHANGED <<heap, frame, produced, sig, hist, shift0, undef>>

\* the destructor: iconv_close
Destroy ==
    /\ pc = "idle"
    /\ conv # NoConv
    /\ conv' = NoConv
    /\ shift' = 0
    /\ UNCHANGED <<errno, heap, pc, frame, result, opened, produced, sig, hist,
                   shift0, undef>>

(***************************************************************************)
(* grow.                                                                   *)
(***************************************************************************)
\* a growth that keeps the capacity once the buffer exists
GrowNewLen_NoDoubling(len) == IF len # 0 THEN len ELSE InitialSize

\* a growth that adds 16 bytes instead of doubling
GrowNewLen_AddInitial(len) == len + InitialSize

GrowNewLen(len) == IF len # 0 THEN len * 2 ELSE InitialSize

\* a growth that hands the whole new capacity out as room after the cursor
GrowOutbufsz_WholeBuffer(newlen, len) == newlen

\* a growth that hands out half of the bytes it added
GrowOutbufsz_Half(newlen, len) == (newlen - len) \div 2

GrowOutbufsz(newlen, len) == newlen - len

\* a growth that forgets where the write cursor stood
GrowOutbuf_FromStart(newptr, buf, out) == newptr

GrowOutbuf(newptr, buf, out) == newptr + (buf - out)

(* The outcomes of grow(&output, &outlen, &outbuf, &outbufsz): its return  *)
(* value and the four variables, the heap and errno after it.              *)
grow(h, e, out, len, buf, bufsz) ==
    LET newlen == GrowNewLen(len)
    IN  { IF r.ptr # NullPtr
          THEN [ret |-> 1, heap |-> r.heap, errno |-> r.errno, undef |-> r.undef,
                outbufsz |-> GrowOutbufsz(newlen, len),
                outbuf |-> GrowOutbuf(r.ptr, buf, out),
                outlen |-> newlen, output |-> r.ptr]
          ELSE [ret |-> 0, heap |-> r.heap, errno |-> r.errno, undef |-> r.undef,
                outbufsz |-> bufsz, outbuf |-> buf, outlen |-> len, output |-> out]
          : r \in Realloc(h, e, out, newlen) }

(***************************************************************************)
(* Iconv::Convert(const Arguments&), Iconv::Convert(char*, size_t) and     *)
(* convert, one action per statement that calls into the environment.      *)
(***************************************************************************)
\* convert(string) or convert(buffer): the locals up to the reset
ConvertCall(in) ==
    /\ pc = "idle"
    /\ conv # NoConv
    /\ input' = in
    /\ inbuf' = 0
    /\ inbufsz' = Len(in)
    /\ outlen' = 0
    /\ outbufsz' = 0
    /\ output' = NullPtr
    /\ outbuf' = NullPtr
    /\ rv' = 0
    /\ cret' = 0
    /\ undef' = {}
    /\ pc' = "reset"
    /\ shift0' = shift
    /\ UNCHANGED <<conv, shift, errno, heap, result, opened, produced, sig, hist>>

\* convert(x) with x neither a string nor a buffer: Undefined()
ConvertOther ==
    /\ pc = "idle"
    /\ conv # NoConv
    /\ result' = [kind |-> "undefined"]
    /\ pc' = "returned"
    /\ UNCHANGED <<conv, shift, errno, heap, frame, opened, produced, sig, hist, shift0, undef>>

Log(ev) == IF Len(hist) < MaxHist THEN Append(hist, ev) ELSE hist

\* a convert that keeps the shift state of the previous call
ResetShift_Skipped(sh) == sh

\* iconv(iv, 0, 0, 0, 0)
ResetShift(sh) == 0

Reset ==
    /\ pc = "reset"
    /\ shift' = ResetShift(shift)
    /\ hist' = Log("reset")
    /\ pc' = "loop_grow"
    /\ UNCHANGED <<shift0, conv, errno, heap, frame, result, opened, produced, sig, undef>>

Undef(flag, what) == IF flag THEN undef \cup { what } ELSE undef

\* the grow of the do-while loop
LoopGrow ==
    /\ pc = "loop_grow"
    /\ \E g \in grow(heap, errno, output, outlen, outbuf, outbufsz) :
          /\ heap' = g.heap
          /\ errno' = g.errno
          /\ output' = g.output
          /\ outlen' = g.outlen
          /\ outbuf' = g.outbuf
          /\ outbufsz' = g.outbufsz
          /\ undef' = Undef(g.undef, "realloc")
          /\ hist' = Log(IF g.ret # 0 THEN "grow" ELSE "growfail")
          /\ sig' = IF g.ret # 0 THEN sig ELSE g.errno
          /\ pc' = IF g.ret # 0 THEN "step" ELSE "error"
    /\ UNCHANGED <<shift0, conv, shift, input, inbuf, inbufsz, rv, cret, result, opened,
                   produced>>

\* a loop that retries after every failure of the step
LoopAgain_AnyFailure(r, e) == r = IconvFail

\* while (rv == (size_t) -1 && errno == E2BIG)
LoopAgain(r, e) == r = IconvFail /\ e = "E2BIG"

\* a convert that goes on to the flush whatever the last step returned
StepFailed_Ignored(r) == FALSE

\* if (rv == (size_t) -1) goto error, after the loop
StepFailed(r) == r = IconvFail

\* what the primitive does in one call: its normal run, or a signal
StepOutcomes ==
    { IconvRun(conv.to, input, inbuf + 1, inbuf + inbufsz, shift, outbufsz, <<>>) }
    \cup { [pos |-> inbuf + 1, out |-> <<>>, shift |-> shift, err |-> e] :
           e \in EnvSignals }

FlushOutcomes ==
    { IconvFlush(conv.to, shift, outbufsz) }
    \cup { [out |-> <<>>, shift |-> shift, err |-> e] : e \in EnvSignals }

\* the step of the loop, the loop's test and the test after the loop
Step ==
    /\ pc = "step"
    /\ \E r \in StepOutcomes :
          LET w == MemWrite(heap, outbuf, r.out)
              rv1 == IF r.err = "OK" THEN 0 ELSE IconvFail
              e1 == IF r.err = "OK" THEN errno ELSE r.err
              next == IF LoopAgain(rv1, e1) THEN "loop_grow"
                      ELSE IF StepFailed(rv1) THEN "error"
                      ELSE "flush"
          IN  /\ heap' = w.heap
              /\ undef' = Undef(w.undef, "write")
              /\ inbuf' = r.pos - 1
              /\ inbufsz' = inbufsz - (r.pos - 1 - inbuf)
              /\ outbuf' = outbuf + Len(r.out)
              /\ outbufsz' = outbufsz - Len(r.out)
              /\ shift' = r.shift
              /\ rv' = rv1
              /\ errno' = e1
              /\ produced' = produced \o r.out
              /\ hist' = Log("step")
              /\ sig' = IF next = "error" THEN e1 ELSE sig
              /\ pc' = next
    /\ UNCHANGED <<shift0, conv, input, output, outlen, cret, result, opened>>

\* the first flush and the tests on its result
Flush ==
    /\ pc = "flush"
    /\ \E r \in FlushOutcomes :
          LET w == MemWrite(heap, outbuf, r.out)
              rv1 == IF r.err = "OK" THEN 0 ELSE IconvFail
              e1 == IF r.err = "OK" THEN errno ELSE r.err
              next == IF rv1 # IconvFail THEN "shrink"
                      ELSE IF e1 # "E2BIG" THEN "error"
                      ELSE "flush_grow"
          IN  /\ heap' = w.heap
              /\ undef' = Undef(w.undef, "write")
              /\ outbuf' = outbuf + Len(r.out)
              /\ outbufsz' = outbufsz - Len(r.out)
              /\ shift' = r.shift
              /\ rv' = rv1
              /\ errno' = e1
              /\ produced' = produced \o r.out
              /\ hist' = Log("flush")
              /\ sig' = IF next = "error" THEN e1 ELSE sig
              /\ pc' = next
    /\ UNCHANGED <<shift0, conv, input, inbuf, inbufsz, output, outlen, cret, result,
                   opened>>

\* the grow between the two flushes
FlushGrow ==
    /\ pc = "flush_grow"
    /\ \E g \in grow(heap, errno, output, outlen, outbuf, outbufsz) :
          /\ heap' = g.heap
          /\ errno' = g.errno
          /\ output' = g.output
          /\ outlen' = g.outlen
          /\ outbuf' = g.outbuf
          /\ outbufsz' = g.outbufsz
          /\ undef' = Undef(g.undef, "realloc")
          /\ hist' = Log(IF g.ret # 0 THEN "grow" ELSE "growfail")
          /\ sig' = IF g.ret # 0 THEN sig ELSE g.errno
          /\ pc' = IF g.ret # 0 THEN "flush_retry" ELSE "error"
    /\ UNCHANGED <<shift0, conv, shift, input, inbuf, inbufsz, rv, cret, result, opened,
                   produced>>

\* the second flush; its result is tested and not stored
FlushRetry ==
    /\ pc = "flush_retry"
    /\ \E r \in FlushOutcomes :
          LET w == MemWrite(heap, outbuf, r.out)
              e1 == IF r.err = "OK" THEN errno ELSE r.err
              next == IF r.err # "OK" THEN "error" ELSE "shrink"
          IN  /\ heap' = w.heap
              /\ undef' = Undef(w.undef, "write")
              /\ outbuf' = outbuf + Len(r.out)
              /\ outbufsz' = outbufsz - Len(r.out)
              /\ shift' = r.shift
              /\ errno' = e1
              /\ produced' = produced \o r.out
              /\ hist' = Log("flush")
              /\ sig' = IF next = "error" THEN e1 ELSE sig
              /\ pc' = next
    /\ UNCHANGED <<shift0, conv, input, inbuf, inbufsz, output, outlen, rv, cret, result,
                   opened>>

\* store length, release the unused tail, return 1
Shrink ==
    /\ pc = "shrink"
    /\ LET len == outbuf - output
       IN  /\ outlen' = len
           /\ \E r \in Realloc(heap, errno, output, len) :
                 /\ heap' = r.heap
                 /\ errno' = r.errno
                 /\ undef' = Undef(r.undef, "realloc")
                 /\ outbuf' = r.ptr
                 /\ output' = IF r.ptr # NullPtr THEN r.ptr ELSE output
    /\ hist' = Log("shrink")
    /\ cret' = 1
    /\ pc' = "return"
    /\ UNCHANGED <<shift0, conv, shift, input, inbuf, inbufsz, outbufsz, rv, result, opened,
                   produced, sig>>

\* an error exit that leaves the buffer allocated
ErrorFree_Leak(h, out) == [heap |-> h, undef |-> FALSE]

\* free(*output) at the error label
ErrorFree(h, out) == Free(h, out)

\* the error label: free, clear, return 0
ErrorExit ==
    /\ pc = "error"
    /\ LET f == ErrorFree(heap, output)
       IN  /\ heap' = f.heap
           /\ undef' = Undef(f.undef, "free")
    /\ errno' \in (IF output = NullPtr THEN { errno } ELSE ErrnoAfterFree(errno))
    /\ output' = NullPtr
    /\ outlen' = 0
    /\ cret' = 0
    /\ hist' = Log("free")
    /\ pc' = "return"
    /\ UNCHANGED <<shift0, conv, shift, input, inbuf, inbufsz, outbuf, outbufsz, rv, result,
                   opened, produced, sig>>

\* Iconv::Convert after convert: the Buffer, or the exception errno selects
Return ==
    /\ pc = "return"
    /\ result' = IF cret # 0
                 THEN [kind |-> "buffer", data |-> output, len |-> outlen]
                 ELSE [kind |-> "error", err |-> Classify(errno), code |-> errno]
    /\ pc' = "returned"
    /\ UNCHANGED <<conv, shift, errno, heap, frame, opened, produced, sig, hist, shift0, undef>>

(* JavaScript drops what the call into the binding gave back.  A Buffer is *)
(* collected, which runs FreeMemory on its storage; the model collects it  *)
(* before the next call starts.                                            *)
Release ==
    /\ pc = "returned"
    /\ IF result.kind = "buffer"
       THEN LET f == Free(heap, result.data)
            IN  /\ heap' = f.heap
                /\ undef' = Undef(f.undef, "free")
                /\ errno' \in ErrnoAfterFree(errno)
       ELSE UNCHANGED <<heap, undef, errno>>
    /\ input' = <<>>
    /\ inbuf' = 0
    /\ inbufsz' = 0
    /\ output' = NullPtr
    /\ outlen' = 0
    /\ outbuf' = NullPtr
    /\ outbufsz' = 0
    /\ rv' = 0
    /\ cret' = 0
    /\ result' = NoResult
    /\ produced' = <<>>
    /\ sig' = "none"
    /\ hist' = <<>>
    /\ shift0' = 0
    /\ opened' = NotOpened
    /\ pc' = "idle"
    /\ UNCHANGED <<conv, shift>>

ConvertSteps ==
    \/ Reset
    \/ LoopGrow
    \/ Step
    \/ Flush
    \/ FlushGrow
    \/ FlushRetry
    \/ Shrink
    \/ ErrorExit
    \/ Return

\* new Iconv(source, target) with any two names
Construct ==
    /\ pc = "idle"
    /\ conv = NoConv
    /\ \E s \in Names, t \in Names : New(s, t)

\* convert(x) with any string or buffer
Convert ==
    /\ pc = "idle"
    /\ conv # NoConv
    /\ \E in \in Inputs : ConvertCall(in)

Next ==
    \/ Construct
    \/ Destroy
    \/ Convert
    \/ ConvertOther
    \/ ConvertSteps
    \/ Release

Spec == Init /\ [][Next]_vars

\* a call that has started keeps running: the binding is synchronous
FairSpec == Spec /\ WF_vars(ConvertSteps)

(***************************************************************************)
(* Properties.                                                             *)
(***************************************************************************)
Events == { hist[i] : i \in DOMAIN hist }

Count(ev) == Cardinality({ i \in DOMAIN hist : hist[i] = ev })

\* a call of Iconv::Convert(char*, size_t) has returned to JavaScript
ConvertReturned == pc = "returned" /\ hist # <<>>

\* the call was aborted by a failure signal of the primitive, not of grow
PrimitiveFailed == sig # "none" /\ "growfail" \notin Events

(* C1: every Convert call ends either with a Buffer and no error, or with  *)
(* one of the four classified errors, and then the output pointer is       *)
(* null, the output length is 0 and no block of the heap is still          *)
(* allocated, whichever operation aborted the call.                        *)
C1_BufferOrError ==
    /\ pc = "return" /\ cret = 0 =>
          output = NullPtr /\ outlen = 0 /\ LiveBlocks(heap) = {}
    /\ ConvertReturned =>
          \/ cret # 0 /\ result.kind = "buffer"
          \/ /\ cret = 0
             /\ result.kind = "error"
             /\ result.err \in ErrorKinds
             /\ output = NullPtr
             /\ outlen = 0
             /\ LiveBlocks(heap) = {}

\* a call aborted by the failure of the retried flush, after two growths
C1_Witness ==
    /\ ConvertReturned
    /\ result.kind = "error"
    /\ Count("flush") = 2
    /\ Count("grow") = 2
    /\ hist[Len(hist)] = "free"

(* C2: while a call runs, the buffer holds exactly the bytes the primitive *)
(* has produced so far, in order, and the write cursor stands right after  *)
(* them, also after a growth; a call that produced more than 16 bytes and  *)
(* succeeds returns exactly these bytes and their number.                  *)
C2_GrowthKeepsBytes ==
    /\ pc \in { "step", "loop_grow", "flush", "flush_grow", "flush_retry", "shrink" }
       /\ "grow" \in Events =>
          /\ outbuf - output = Len(produced)
          /\ IsLiveBase(heap, output)
          /\ Len(produced) <= heap[BlockAt(output)].size
          /\ MemRead(heap, output, Len(produced)) = produced
    /\ ConvertReturned /\ result.kind = "buffer" /\ Len(produced) > InitialSize =>
          /\ result.len = Len(produced)
          /\ IsLiveBase(heap, result.data)
          /\ MemRead(heap, result.data, result.len) = produced

\* more than 32 bytes returned from a block that three growths built
C2_Witness ==
    /\ ConvertReturned
    /\ result.kind = "buffer"
    /\ result.len > 2 * InitialSize
    /\ Count("grow") = 3
    /\ MemRead(heap, result.data, result.len) = produced

(* C3: the storage of a returned Buffer is a block that is still           *)
(* allocated, the only one, whatever the output length and whatever the    *)
(* shrinking realloc did; collecting the Buffer then frees it once, so     *)
(* no free is ever undefined.                                              *)
C3_BufferIsLive ==
    /\ ConvertReturned /\ result.kind = "buffer" =>
          /\ IsLiveBase(heap, result.data)
          /\ LiveBlocks(heap) = { BlockAt(result.data) }
    /\ "free" \notin undef

(* C4: the error Convert throws is the one the failure signal of the       *)
(* aborting operation selects: EINVAL IncompleteSequence, EILSEQ           *)
(* IllegalSequence, ENOMEM OutOfMemory, any other OtherSystemError with    *)
(* that signal as its code; the free before the classification does not    *)
(* change it.                                                              *)
C4_KindFollowsSignal ==
    ConvertReturned /\ result.kind = "error" =>
        /\ result.err = Classify(sig)
        /\ result.code = sig

(* C5: a call in which a growth failed (the first allocation, a regrowth   *)
(* in the loop, the growth before the retried flush) fails with            *)
(* OutOfMemory, and nothing it allocated is still allocated.               *)
C5_GrowthFailureIsOutOfMemory ==
    ConvertReturned /\ "growfail" \in Events =>
        /\ result.kind = "error"
        /\ result.err = "OutOfMemory"
        /\ LiveBlocks(heap) = {}

(* C6: every call resets the descriptor before its first step or flush,    *)
(* so whatever shift state the previous call left, the primitive starts    *)
(* from the initial state, a successful call returns the bytes a freshly   *)
(* opened descriptor produces for the input, and a call the primitive      *)
(* rejects stops with the signal a freshly opened descriptor raises.       *)
C6_SameAsFresh ==
    /\ hist # <<>> => hist[1] = "reset"
    /\ hist # <<>> /\ "step" \notin Events /\ "flush" \notin Events => shift = 0
    /\ ConvertReturned /\ result.kind = "buffer" =>
          /\ FreshRun(conv.to, input).err = "OK"
          /\ produced = FreshRun(conv.to, input).out
          /\ result.len = Len(FreshRun(conv.to, input).out)
    /\ ConvertReturned /\ sig \in { "EINVAL", "EILSEQ" } =>
          sig = FreshRun(conv.to, input).err

\* a successful call on a descriptor the previous call left in shift state 1
C6_Witness ==
    /\ ConvertReturned
    /\ shift0 = 1
    /\ result.kind = "buffer"
    /\ result.len > 0

(* C7: converting a zero-length input never yields an error (unless the    *)
(* primitive itself fails): the call returns a Buffer holding exactly      *)
(* what the flush wrote, which is nothing after a reset.                   *)
C7_EmptyInputSucceeds ==
    ConvertReturned /\ input = <<>> /\ ~PrimitiveFailed =>
        /\ result.kind = "buffer"
        /\ result.len = Len(FreshRun(conv.to, input).out)

(* C8: every Convert call reaches its return.                              *)
C8_Terminates == (pc = "reset") ~> (pc = "returned")

\* a call that returned after the loop grew the buffer twice
C8_Witness ==
    /\ ConvertReturned
    /\ Count("grow") >= 2
    /\ Count("step") >= 2

(* C9: New(source, target) opens the primitive with (fixup(target),        *)
(* fixup(source)); when the primitive rejects the pair, New throws         *)
(* UnsupportedConversion with the primitive's errno, there is no Iconv     *)
(* object, and no convert runs without one.                                *)
C9_OpenTargetThenSource ==
    /\ pc = "returned" /\ opened # NotOpened =>
          /\ opened[3] = fixEncodingName(opened[2])
          /\ opened[4] = fixEncodingName(opened[1])
          /\ IF iconv_open(fixEncodingName(opened[2]), fixEncodingName(opened[1])) = NoConv
             THEN /\ result.kind = "error"
                  /\ result.err = "UnsupportedConversion"
                  /\ result.code = errno
                  /\ conv = NoConv
             ELSE /\ result.kind = "object"
                  /\ conv = iconv_open(fixEncodingName(opened[2]),
                                       fixEncodingName(opened[1]))
    /\ hist # <<>> => conv # NoConv
    /\ pc \notin { "idle", "returned" } => conv # NoConv

\* a pair rejected in the order (target, source) that the primitive
\* accepts in the order (source, target)
C9_Witness ==
    /\ pc = "returned"
    /\ opened # NotOpened
    /\ result.kind = "error"
    /\ conv = NoConv
    /\ iconv_open(opened[4], opened[3]) # NoConv

\* the aliases the fixup knows, lower-cased, with their canonical names
Aliases ==
    { <<Fold(<<"U", "T", "F", "7">>), UTF7>>,
      <<Fold(<<"U", "T", "F", "8">>), UTF8>>,
      <<Fold(<<"U", "T", "F", "1", "6">>), UTF16>>,
      <<Fold(<<"U", "T", "F", "1", "6", "L", "E">>), UTF16LE>>,
      <<Fold(<<"U", "T", "F", "1", "6", "B", "E">>), UTF16BE>>,
      <<Fold(<<"U", "T", "F", "3", "2">>), UTF32>>,
      <<Fold(<<"U", "T", "F", "3", "2", "L", "E">>), UTF32LE>>,
      <<Fold(<<"U", "T", "F", "3", "2", "B", "E">>), UTF32BE>> }

Canonical(name) ==
    IF \E a \in Aliases : a[1] = Fold(name)
    THEN (CHOOSE a \in Aliases : a[1] = Fold(name))[2]
    ELSE name

(* C10: the name New hands to the primitive is the hyphenated canonical    *)
(* name when the given name is one of the eight aliases in any case, and   *)
(* the given name itself otherwise; fixing it again changes nothing.       *)
C10_FixupCanonical ==
    opened # NotOpened =>
        /\ opened[3] = Canonical(opened[2])
        /\ opened[4] = Canonical(opened[1])
        /\ fixEncodingName(opened[3]) = opened[3]
        /\ fixEncodingName(opened[4]) = opened[4]

\* "utF16le" as the target and "UTF8" as the source
C10_Witness ==
    /\ opened # NotOpened
    /\ opened[2] = <<"u", "t", "F", "1", "6", "l", "e">>
    /\ opened[3] = UTF16LE
    /\ opened[1] = <<"U", "T", "F", "8">>
    /\ opened[4] = UTF8

\* convert is between its reset and its shrink or its error label's free
Building ==
    pc \in { "loop_grow", "step", "flush", "flush_grow", "flush_retry", "shrink",
             "error" }

\* the primitive is about to be invoked with outbuf and outbufsz
Invoking == pc \in { "step", "flush", "flush_retry" }

(* C11: a call with a zero-length input performs no growth, failed or not, *)
(* and no step of the primitive: after the reset it goes on to the flush.  *)
C11_EmptyInputSkipsLoop ==
    hist # <<>> /\ input = <<>> =>
        /\ "grow" \notin Events
        /\ "growfail" \notin Events
        /\ "step" \notin Events

(* C12: while convert builds the output, the write cursor stands between   *)
(* the start of the block and its end, the room handed to the primitive    *)
(* ends at or before the end of the block, the block is allocated with     *)
(* the capacity convert believes it has, and no write of the primitive     *)
(* ever falls outside an allocated block.                                  *)
C12_CursorInsideBuffer ==
    /\ Building =>
          /\ 0 <= outbuf - output
          /\ outbuf - output <= outlen
          /\ 0 <= outbufsz
          /\ (outbuf - output) + outbufsz <= outlen
          /\ IF output = NullPtr THEN outlen = 0
             ELSE /\ IsLiveBase(heap, output)
                  /\ heap[BlockAt(output)].size = outlen
    /\ "write" \notin undef

\* a step about to write behind bytes it wrote before two growths, with
\* room that ends before the end of the block
C12_Witness ==
    /\ pc = "step"
    /\ Count("grow") >= 2
    /\ outbuf - output > 0
    /\ (outbuf - output) + outbufsz < outlen
    /\ "write" \notin undef

(* C13: whenever the primitive is invoked, for a step or for a flush, the  *)
(* room it is given is all of the block behind the write cursor: the       *)
(* capacity minus the cursor's offset, also after a growth that found      *)
(* unused bytes behind the cursor.                                         *)
C13_RemainingIsTail ==
    Invoking => outbufsz = outlen - (outbuf - output)

\* the capacity after g growths: 16, then doubled by each further growth
CapacityAfter(g) == IF g = 0 THEN 0 ELSE InitialSize * 2 ^ (g - 1)

\* n is 16 doubled any number of times
RECURSIVE IsDoubled(_)
IsDoubled(n) ==
    \/ n = InitialSize
    \/ n > InitialSize /\ n % 2 = 0 /\ IsDoubled(n \div 2)

\* the capacity is what the growths so far made it, and 0 or 16 * 2^k
CapacityDoubles ==
    Building =>
        /\ outlen = CapacityAfter(Count("grow"))
        /\ outlen = 0 \/ IsDoubled(outlen)

\* convert is about to call grow
Growing == pc \in { "loop_grow", "flush_grow" }

(* C14, as claimed: a growth happens only when no unused byte is left      *)
(* behind the write cursor; each growth sets the capacity to               *)
(* max(16, 2 * capacity), so that the capacity never decreases and is      *)
(* always 0 or 16 * 2^k.                                                   *)
C14_GrowsWhenExhausted ==
    /\ Growing => outbufsz = 0
    /\ CapacityDoubles

(* C14, amended: a growth happens on the first pass of the loop, when      *)
(* there is no buffer yet, and otherwise only after the primitive          *)
(* reported E2BIG, whatever number of unused bytes is left behind the      *)
(* write cursor; each growth sets the capacity to max(16, 2 * capacity),   *)
(* so that the capacity never decreases and is always 0 or 16 * 2^k.       *)
C14_GrowsWhenTooSmall ==
    /\ Growing => outlen = 0 \/ (rv = IconvFail /\ errno = "E2BIG")
    /\ CapacityDoubles

\* a growth about to happen after E2BIG with unused bytes behind the cursor
C14_Witness ==
    /\ pc = "loop_grow"
    /\ outlen = InitialSize
    /\ outbufsz > 0
    /\ rv = IconvFail
    /\ errno = "E2BIG"

(* C15: a step that fails with a signal other than E2BIG takes the call    *)
(* to the error label, which frees the buffer and returns 0, and the call  *)
(* then ends with an error: no growth, step or flush comes in between.     *)
(* The loop goes round to a growth and a retried step after E2BIG only.    *)
C15_OtherFailureAborts ==
    [][ /\ pc = "step" /\ rv' = IconvFail /\ errno' # "E2BIG" => pc' = "error"
        /\ pc = "step" /\ pc' = "loop_grow" => rv' = IconvFail /\ errno' = "E2BIG"
        /\ pc = "loop_grow" /\ pc' = "step" => hist' = Append(hist, "grow")
        /\ pc = "error" =>
              /\ pc' = "return"
              /\ hist' = Append(hist, "free")
              /\ cret' = 0
              /\ output' = NullPtr
              /\ LiveBlocks(heap') = {}
        /\ pc = "return" /\ cret = 0 =>
              /\ pc' = "returned"
              /\ hist' = hist
              /\ result'.kind = "error"
      ]_vars

\* a call that a retried step aborted with a signal other than E2BIG
C15_Witness ==
    /\ ConvertReturned
    /\ result.kind = "error"
    /\ sig \in { "EILSEQ", "EINVAL" }
    /\ Count("step") = 2
    /\ Count("grow") = 2
    /\ hist[Len(hist)] = "free"
    /\ hist[Len(hist) - 1] = "step"

\* the place of the first flush among the operations of the call
FirstFlush == CHOOSE i \in DOMAIN hist : hist[i] = "flush" /\ Count("flush") >= 1
                                          /\ \A j \in 1 .. (i - 1) : hist[j] # "flush"

\* the operations of the call from its first flush on
FlushPhase ==
    IF "flush" \in Events THEN SubSeq(hist, FirstFlush, Len(hist)) ELSE <<>>

\* what the flush phase can have done so far: a flush that succeeds or
\* fails, or a flush, one growth and one more flush
FlushPhases ==
    { <<>>,
      <<"flush">>, <<"flush", "shrink">>, <<"flush", "free">>,
      <<"flush", "growfail">>, <<"flush", "growfail", "free">>,
      <<"flush", "grow">>,
      <<"flush", "grow", "flush">>,
      <<"flush", "grow", "flush", "shrink">>,
      <<"flush", "grow", "flush", "free">> }

\* convert is about to call, or has called, the primitive for a flush
Flushing ==
    \/ pc \in { "flush", "flush_grow", "flush_retry" }
    \/ "flush" \in Events

(* C16: the read cursor only advances and stops at the end of the input,   *)
(* and the flush is invoked only when no input is left.  The flush phase   *)
(* is one flush; after E2BIG, and then only, one growth and one more       *)
(* flush; every other failure of the first flush and every failure of      *)
(* the second one takes the call to the error label.                       *)
C16_FlushAfterInput ==
    /\ [](/\ 0 <= inbufsz
          /\ inbuf + inbufsz = Len(input)
          /\ Flushing => inbufsz = 0 /\ inbuf = Len(input)
          /\ FlushPhase \in FlushPhases)
    /\ [][ /\ pc \in { "reset", "loop_grow", "step" } => inbuf' >= inbuf
           /\ pc = "flush" =>
                 pc' = IF rv' # IconvFail THEN "shrink"
                       ELSE IF errno' = "E2BIG" THEN "flush_grow"
                       ELSE "error"
           /\ pc = "flush_grow" => pc' \in { "flush_retry", "error" }
           /\ pc = "flush_retry" => pc' = IF shift' = 0 THEN "shrink" ELSE "error"
         ]_vars

\* a retried flush that succeeded, after an input the step consumed whole
C16_Witness ==
    /\ pc = "shrink"
    /\ Len(input) > 0
    /\ inbuf = Len(input)
    /\ inbufsz = 0
    /\ shift = 0
    /\ FlushPhase = <<"flush", "grow", "flush">>

\* the shrinking realloc returned a block (convert keeps its result in outbuf)
ShrinkSucceeded == outbuf # NullPtr

(* C17: a call that succeeds has shrunk the buffer once, as its last       *)
(* operation and right after a flush; the length it returns is the         *)
(* number of bytes written; the returned storage is an allocated block of  *)
(* exactly that length when the shrinking realloc returned one, and the    *)
(* block as it was before the shrink, with its full capacity, when the     *)
(* realloc returned NULL.  A call that fails has not shrunk anything.      *)
C17_ShrunkOnce ==
    /\ ConvertReturned /\ result.kind = "buffer" =>
          /\ Count("shrink") = 1
          /\ hist[Len(hist)] = "shrink"
          /\ hist[Len(hist) - 1] = "flush"
          /\ result.len = Len(produced)
          /\ result.len = outlen
          /\ IsLiveBase(heap, result.data)
          /\ heap[BlockAt(result.data)].size =
                IF ShrinkSucceeded THEN result.len
                ELSE CapacityAfter(Count("grow"))
    /\ ConvertReturned /\ result.kind = "error" => "shrink" \notin Events

(* C18: the retried flush is given at least 16 bytes of room, the capacity *)
(* before the growth that precedes it; the shift sequence fits in them,    *)
(* so no call is ever aborted by E2BIG, and a call that reached the flush  *)
(* fails only when a growth fails or the primitive raises a signal of      *)
(* its own.                                                                *)
C18_RetryHasRoom ==
    /\ Len(EscOut) <= InitialSize
    /\ pc = "flush_retry" =>
          /\ outbufsz >= InitialSize
          /\ outbufsz = CapacityAfter(Count("grow") - 1)
          /\ outbufsz >= Len(EscOut)
    /\ sig # "E2BIG"
    /\ ConvertReturned /\ "flush" \in Events /\ result.kind = "error" =>
          \/ "growfail" \in Events /\ sig = "ENOMEM"
          \/ sig \in EnvSignals

\* a retried flush about to write the shift sequence the first one had no
\* room for
C18_Witness ==
    /\ pc = "flush_retry"
    /\ shift = 1
    /\ outlen = 2 * InitialSize
    /\ outlen - (outbuf - output) - outbufsz > 0
    /\ outlen - (outbuf - output) - outbufsz < Len(EscOut)

====
